---- MODULE Spec2Model ----
(***************************************************************************)
(* Model of the EANSearch client library (eansearch.hpp): the query        *)
(* encoder, the JSON response decoders, the transport call and the nine    *)
(* facade operations.  C++ strings are sequences of byte values 0..255, a  *)
(* response body is either text that is not JSON or the JSON document it   *)
(* parses to, and a C++ exception leaving a function is an explicit        *)
(* "thrown" outcome of the operator that models the function.              *)
(***************************************************************************)
EXTENDS Integers, Sequences, FiniteSets

VARIABLES
    token,      \* EANSearch::token, set by the constructor
    pc,         \* position of the running facade call
    op,         \* the facade operation that is running
    nargs,      \* number of arguments the caller passed explicitly
    sarg,       \* the string argument of the call (ean, isbn, name or prefix)
    params,     \* the params string handed to APICall
    target,     \* the request target APICall builds
    conn,       \* state of the call's ssl::stream / socket
    nreq,       \* HTTP requests written on the connection of this call
    output,     \* the result/output string of the call (response body)
    failedAt,   \* the transport stage that threw, or "none"
    ec,         \* the error code stream.shutdown reported, or "none"
    apiret,     \* what APICall returned: "none", "true" or "false"
    outcome,    \* how the facade call ended: "none", "returned", "raised"
    ret,        \* the value the facade call returned
    encIn,      \* input of a direct urlencode call
    encOut,     \* its result
    encDone,
    decIn,      \* input JSON value of a direct ProductFromJSON call
    decOut,     \* its result
    decDone

facadeVars == <<token, pc, op, nargs, sarg, params, target, conn, nreq,
                output, failedAt, ec, apiret, outcome, ret>>
encVars == <<encIn, encOut, encDone>>
decVars == <<decIn, decOut, decDone>>
vars == <<facadeVars, encVars, decVars>>

---------------------------------------------------------------------------
(* Bounds of the model *)

\* longest input string drawn for a direct urlencode call
MaxLen == 2
\* longest productlist array in a response body
MaxItems == 2

---------------------------------------------------------------------------
(* Bytes and strings *)

INT_MAX == 2147483647
INT_MIN == (-2147483647) - 1

RECURSIVE Flatten(_)
Flatten(ss) == IF ss = <<>> THEN <<>> ELSE Head(ss) \o Flatten(Tail(ss))

\* "0123456789ABCDEF"
hex == <<48, 49, 50, 51, 52, 53, 54, 55, 56, 57, 65, 66, 67, 68, 69, 70>>

\* "0123456789abcdef"
hex_lower == <<48, 49, 50, 51, 52, 53, 54, 55, 56, 57, 97, 98, 99, 100, 101, 102>>

IsUnreserved(c) ==
    \/ (c >= 65 /\ c <= 90)
    \/ (c >= 97 /\ c <= 122)
    \/ (c >= 48 /\ c <= 57)
    \/ c = 45 \/ c = 95 \/ c = 46 \/ c = 126

\* one iteration of the loop of EANSearch::urlencode; (c >> 4) & 0xF is
\* c \div 16 and c & 0xF is c % 16 for an unsigned char
urlencode_byte_lowerhex(c) ==
    IF IsUnreserved(c) THEN <<c>>
    ELSE <<37, hex_lower[((c \div 16) % 16) + 1], hex_lower[(c % 16) + 1]>>

urlencode_byte(c) ==
    IF IsUnreserved(c) THEN <<c>>
    ELSE <<37, hex[((c \div 16) % 16) + 1], hex[(c % 16) + 1]>>

RECURSIVE urlencode(_)
urlencode(str) ==
    IF str = <<>> THEN <<>>
    ELSE urlencode_byte(Head(str)) \o urlencode(Tail(str))

\* isspace() in the "C" locale, also what the regex class \s matches
IsSpace(c) == c \in {32, 9, 10, 11, 12, 13}

\* the file-local urlencode of eansearch.cpp: whitespace becomes '+'
urlencode_cpp(str) ==
    [i \in 1..Len(str) |-> IF IsSpace(str[i]) THEN 43 ELSE str[i]]

IsDigit(c) == c >= 48 /\ c <= 57

\* std::to_string(int)
RECURSIVE to_string_nat(_)
to_string_nat(n) ==
    IF n < 10 THEN <<48 + n>>
    ELSE to_string_nat(n \div 10) \o <<48 + (n % 10)>>

to_string(n) ==
    IF n >= 0 THEN to_string_nat(n)
    ELSE IF n = INT_MIN THEN <<45>> \o to_string_nat(214748364) \o <<56>>
    ELSE <<45>> \o to_string_nat(-n)

\* const char * -> std::string: the bytes before the first NUL
RECURSIVE c_str(_)
c_str(s) ==
    IF s = <<>> \/ Head(s) = 0 THEN <<>>
    ELSE <<Head(s)>> \o c_str(Tail(s))

RECURSIVE SkipSpace(_)
SkipSpace(s) ==
    IF s # <<>> /\ IsSpace(Head(s)) THEN SkipSpace(Tail(s)) ELSE s

\* the digits of strtol, accumulated with the sign so that the int range
\* is tested before it is left; acc is the value so far, n the digits read
RECURSIVE ParseDigits(_, _, _, _, _)
ParseDigits(s, sign, acc, n, range) ==
    IF s = <<>> \/ ~IsDigit(Head(s))
    THEN [digits |-> n, v |-> acc, range |-> range]
    ELSE LET d == Head(s) - 48
             fits == IF sign > 0 THEN acc <= (INT_MAX - d) \div 10
                     ELSE acc >= -((INT_MAX - d) \div 10)
                          \/ (acc = -214748364 /\ d <= 8)
         IN  IF range /\ fits
             THEN ParseDigits(Tail(s), sign, acc * 10 + sign * d, n + 1, TRUE)
             ELSE ParseDigits(Tail(s), sign, acc, n + 1, FALSE)

\* std::stoi(const char *): thrown on no conversion (invalid_argument) or
\* a value outside int (out_of_range)
stoi(cs) ==
    LET s0 == SkipSpace(c_str(cs))
        neg == s0 # <<>> /\ Head(s0) = 45
        s1 == IF s0 # <<>> /\ Head(s0) \in {43, 45} THEN Tail(s0) ELSE s0
        r == ParseDigits(s1, IF neg THEN -1 ELSE 1, 0, 0, TRUE)
    IN  IF r.digits = 0 \/ ~r.range THEN [thrown |-> TRUE]
        ELSE [thrown |-> FALSE, v |-> r.v]

---------------------------------------------------------------------------
(* JSON documents (boost::json::value) *)

JNull == [t |-> "null"]
JNum(n) == [t |-> "number", n |-> n]
JStr(s) == [t |-> "string", s |-> s]
JArr(a) == [t |-> "array", a |-> a]
\* an object is the sequence of its key/value pairs, keys distinct
JObj(o) == [t |-> "object", o |-> o]
KV(k, v) == [k |-> k, v |-> v]

\* a response body that is not JSON text (the empty string included)
NotJSON == [t |-> "invalid"]

Thrown == [thrown |-> TRUE]
Ok(v) == [thrown |-> FALSE, v |-> v]

\* json::parse(str): throws when the text is not JSON
parse(body) == IF body.t = "invalid" THEN Thrown ELSE Ok(body)

\* json::parse(str, ec): no throw, a null value and ec set on failure
parse_ec(body) ==
    IF body.t = "invalid" THEN [ec |-> TRUE, v |-> JNull]
    ELSE [ec |-> FALSE, v |-> body]

if_contains(o, key) == \E i \in 1..Len(o) : o[i].k = key

find(o, key) == o[CHOOSE i \in 1..Len(o) : o[i].k = key].v

\* value::at(std::size_t): throws unless an array with that position
at_pos(r, pos) ==
    IF r.thrown THEN Thrown
    ELSE IF r.v.t # "array" \/ pos >= Len(r.v.a) THEN Thrown
    ELSE Ok(r.v.a[pos + 1])

\* value::at(string_view): throws unless an object holding the key
at_key(r, key) ==
    IF r.thrown THEN Thrown
    ELSE IF r.v.t # "object" THEN Thrown
    ELSE IF ~if_contains(r.v.o, key) THEN Thrown
    ELSE Ok(find(r.v.o, key))

\* value::as_string(): throws unless a string
as_string(r) ==
    IF r.thrown THEN Thrown
    ELSE IF r.v.t # "string" THEN Thrown
    ELSE Ok(r.v.s)

\* stoi(x.as_string().c_str())
stoi_of(r) == IF r.thrown THEN Thrown ELSE stoi(r.v)

---------------------------------------------------------------------------
(* Products *)

nullptr == [cls |-> "nullptr"]

NewProduct(ean, name, categoryId, categoryName, issuingCountry) ==
    [cls |-> "Product", ean |-> ean, name |-> name, categoryId |-> categoryId,
     categoryName |-> categoryName, issuingCountry |-> issuingCountry]

NewProductFull(ean, name, categoryId, categoryName, issuingCountry, g) ==
    [cls |-> "ProductFull", ean |-> ean, name |-> name,
     categoryId |-> categoryId, categoryName |-> categoryName,
     issuingCountry |-> issuingCountry, googleCategoryId |-> g]

\* static_cast<ProductFull *>(p): the pointer whatever its class
static_cast_ProductFull(p) == p

\* dynamic_cast<ProductFull *>(p)
dynamic_cast_ProductFull(p) == IF p.cls = "ProductFull" THEN p ELSE nullptr

\* ProductFromJSON that skips the conversion of categoryId
ProductFromJSON_nocat(api_result) ==
    IF api_result.t # "object" THEN Ok(nullptr)
    ELSE LET j == Ok(api_result)
             has == if_contains(api_result.o, "googleCategoryId")
             g == stoi_of(as_string(at_key(j, "googleCategoryId")))
             ean == as_string(at_key(j, "ean"))
             name == as_string(at_key(j, "name"))
             categoryName == as_string(at_key(j, "categoryName"))
             issuingCountry == as_string(at_key(j, "issuingCountry"))
         IN  IF (has /\ g.thrown) \/ ean.thrown \/ name.thrown
                \/ categoryName.thrown \/ issuingCountry.thrown
             THEN Thrown
             ELSE IF has
             THEN Ok(NewProductFull(ean.v, name.v, 0,
                                    categoryName.v, issuingCountry.v, g.v))
             ELSE Ok(NewProduct(ean.v, name.v, 0,
                                categoryName.v, issuingCountry.v))

\* ProductFromJSON of eansearch.hpp.  A value that is not an object gives
\* nullptr; any at(), as_string() or stoi() that throws leaves the function
\* as an exception.
ProductFromJSON(api_result) ==
    IF api_result.t # "object" THEN Ok(nullptr)
    ELSE LET j == Ok(api_result)
             has == if_contains(api_result.o, "googleCategoryId")
             g == stoi_of(as_string(at_key(j, "googleCategoryId")))
             ean == as_string(at_key(j, "ean"))
             name == as_string(at_key(j, "name"))
             categoryId == stoi_of(as_string(at_key(j, "categoryId")))
             categoryName == as_string(at_key(j, "categoryName"))
             issuingCountry == as_string(at_key(j, "issuingCountry"))
         IN  IF (has /\ g.thrown) \/ ean.thrown \/ name.thrown
                \/ categoryId.thrown \/ categoryName.thrown
                \/ issuingCountry.thrown
             THEN Thrown
             ELSE IF has
             THEN Ok(NewProductFull(ean.v, name.v, categoryId.v,
                                    categoryName.v, issuingCountry.v, g.v))
             ELSE Ok(NewProduct(ean.v, name.v, categoryId.v,
                                categoryName.v, issuingCountry.v))

\* ProductFromJSON of eansearch.cpp: always a ProductFull, the required
\* fields first, the googleCategoryId conversion inside try/catch; the
\* value-initialised googleCategoryId stays 0 when the conversion throws
ProductFromJSON_cpp(api_result) ==
    LET j == Ok(api_result)
        ean == as_string(at_key(j, "ean"))
        name == as_string(at_key(j, "name"))
        categoryId == stoi_of(as_string(at_key(j, "categoryId")))
        categoryName == as_string(at_key(j, "categoryName"))
        issuingCountry == as_string(at_key(j, "issuingCountry"))
        g == stoi_of(as_string(at_key(j, "googleCategoryId")))
    IN  IF ean.thrown \/ name.thrown \/ categoryId.thrown
           \/ categoryName.thrown \/ issuingCountry.thrown
        THEN Thrown
        ELSE Ok(NewProductFull(ean.v, name.v, categoryId.v, categoryName.v,
                               issuingCountry.v,
                               IF g.thrown THEN 0 ELSE g.v))

\* the loop of ParseProductList over the array: a null item is skipped, an
\* item whose decode throws ends the loop with the exception
RECURSIVE ParseItems(_, _)
ParseItems(arr, pl) ==
    IF arr = <<>> THEN Ok(pl)
    ELSE LET p == ProductFromJSON(Head(arr))
         IN  IF p.thrown THEN Thrown
             ELSE IF p.v # nullptr THEN ParseItems(Tail(arr), Append(pl, p.v))
             ELSE ParseItems(Tail(arr), pl)

\* the list (or no list) a ProductList * stands for
NoList == [isnull |-> TRUE]
List(pl) == [isnull |-> FALSE, pl |-> pl]

\* EANSearch::ParseProductList
ParseProductList(str) ==
    LET api_result == parse_ec(str)
        field == at_key(Ok(api_result.v), "productlist")
    IN  IF api_result.ec THEN Ok(NoList)
        ELSE IF field.thrown THEN Thrown
        ELSE IF field.v.t # "array" THEN Ok(NoList)
        ELSE LET pl == ParseItems(field.v.a, <<>>)
             IN  IF pl.thrown THEN Thrown ELSE Ok(List(pl.v))

---------------------------------------------------------------------------
(* String literals of the request *)

\* "/api?"
S_api ==
    <<47, 97, 112, 105, 63>>
\* "&token="
S_token ==
    <<38, 116, 111, 107, 101, 110, 61>>
\* "&format=json"
S_format ==
    <<38, 102, 111, 114, 109, 97, 116, 61, 106, 115, 111, 110>>
\* "op=barcode-lookup&ean="
S_barcode_lookup_ean ==
    <<111, 112, 61, 98, 97, 114, 99, 111, 100, 101, 45, 108, 111, 111, 107,
      117, 112, 38, 101, 97, 110, 61>>
\* "&language="
S_language ==
    <<38, 108, 97, 110, 103, 117, 97, 103, 101, 61>>
\* "op=barcode-lookup&isbn="
S_barcode_lookup_isbn ==
    <<111, 112, 61, 98, 97, 114, 99, 111, 100, 101, 45, 108, 111, 111, 107,
      117, 112, 38, 105, 115, 98, 110, 61>>
\* "op=verify-checksum&ean="
S_verify_checksum_ean ==
    <<111, 112, 61, 118, 101, 114, 105, 102, 121, 45, 99, 104, 101, 99, 107,
      115, 117, 109, 38, 101, 97, 110, 61>>
\* "op=product-search&name="
S_product_search_name ==
    <<111, 112, 61, 112, 114, 111, 100, 117, 99, 116, 45, 115, 101, 97, 114,
      99, 104, 38, 110, 97, 109, 101, 61>>
\* "&page="
S_page ==
    <<38, 112, 97, 103, 101, 61>>
\* "op=similar-product-search&name="
S_similar_product_search_name ==
    <<111, 112, 61, 115, 105, 109, 105, 108, 97, 114, 45, 112, 114, 111, 100,
      117, 99, 116, 45, 115, 101, 97, 114, 99, 104, 38, 110, 97, 109, 101, 61>>
\* "op=category-search&category="
S_category_search_category ==
    <<111, 112, 61, 99, 97, 116, 101, 103, 111, 114, 121, 45, 115, 101, 97,
      114, 99, 104, 38, 99, 97, 116, 101, 103, 111, 114, 121, 61>>
\* "&name="
S_name ==
    <<38, 110, 97, 109, 101, 61>>
\* "op=barcode-prefix-search&prefix="
S_barcode_prefix_search_prefix ==
    <<111, 112, 61, 98, 97, 114, 99, 111, 100, 101, 45, 112, 114, 101, 102,
      105, 120, 45, 115, 101, 97, 114, 99, 104, 38, 112, 114, 101, 102, 105,
      120, 61>>
\* "op=issuing-country&ean="
S_issuing_country_ean ==
    <<111, 112, 61, 105, 115, 115, 117, 105, 110, 103, 45, 99, 111, 117, 110,
      116, 114, 121, 38, 101, 97, 110, 61>>
\* "op=barcode-image&ean="
S_barcode_image_ean ==
    <<111, 112, 61, 98, 97, 114, 99, 111, 100, 101, 45, 105, 109, 97, 103,
      101, 38, 101, 97, 110, 61>>
\* "&width="
S_width ==
    <<38, 119, 105, 100, 116, 104, 61>>
\* "&height="
S_height ==
    <<38, 104, 101, 105, 103, 104, 116, 61>>

---------------------------------------------------------------------------
(* Declarations: enum Language and the default arguments *)

English == 1
German == 3
Any == 99
BarcodeLookup_language == English
ProductSearch_only_language == Any
ProductSearch_page == 0
SimilarProductSearch_only_language == Any
SimilarProductSearch_page == 1
CategorySearch_only_language == Any
CategorySearch_page == 0
BarcodePrefixSearch_language == English
BarcodePrefixSearch_page == 0
BarcodeImage_width == 102
BarcodeImage_height == 50

\* the value of the i-th parameter of a call that passes n arguments
Arg(n, i, given, default) == IF n >= i THEN given ELSE default

---------------------------------------------------------------------------
(* Values a facade call returns *)

NoRet == [kind |-> "none"]
RetProduct(p) == [kind |-> "ProductFull*", p |-> p]
RetList(l) == [kind |-> "ProductList*", l |-> l]
RetBool(b) == [kind |-> "bool", b |-> b]
RetString(s) == [kind |-> "string", s |-> s]

Returned(v) == [outcome |-> "returned", ret |-> v]
Raised == [outcome |-> "raised", ret |-> NoRet]

\* BarcodeLookup reading the element after the first one
BarcodeLookup_result_at1(ok, result) ==
    IF ok = "true"
    THEN LET item == at_pos(parse(result), 1)
             p == IF item.thrown THEN Thrown ELSE ProductFromJSON(item.v)
         IN  IF p.thrown THEN Raised
             ELSE Returned(RetProduct(dynamic_cast_ProductFull(p.v)))
    ELSE Returned(RetProduct(nullptr))

\* the part of BarcodeLookup after APICall
BarcodeLookup_result(ok, result) ==
    IF ok = "true"
    THEN LET item == at_pos(parse(result), 0)
             p == IF item.thrown THEN Thrown ELSE ProductFromJSON(item.v)
         IN  IF p.thrown THEN Raised
             ELSE Returned(RetProduct(dynamic_cast_ProductFull(p.v)))
    ELSE Returned(RetProduct(nullptr))

\* the part of IsbnLookup after APICall
IsbnLookup_result(ok, result) ==
    IF ok = "true"
    THEN LET item == at_pos(parse(result), 0)
             p == IF item.thrown THEN Thrown ELSE ProductFromJSON(item.v)
         IN  IF p.thrown THEN Raised
             ELSE Returned(RetProduct(dynamic_cast_ProductFull(p.v)))
    ELSE Returned(RetProduct(nullptr))

\* the part of VerifyChecksum after APICall; "1" is the byte 49
VerifyChecksum_result(ok, result) ==
    IF ok = "true"
    THEN LET valid == as_string(at_key(at_pos(parse(result), 0), "valid"))
         IN  IF valid.thrown THEN Raised
             ELSE Returned(RetBool(valid.v = <<49>>))
    ELSE Returned(RetBool(FALSE))

\* the part of the four searches after APICall
Search_result(ok, result) ==
    IF ok = "true"
    THEN LET pl == ParseProductList(result)
         IN  IF pl.thrown THEN Raised ELSE Returned(RetList(pl.v))
    ELSE Returned(RetList(NoList))

\* the part of IssuingCountryLookup after APICall: parse(result, ec) does
\* not throw, the at(0) on the null value it leaves does
IssuingCountryLookup_result(ok, result) ==
    IF ok = "true"
    THEN LET api_result == parse_ec(result)
             s == as_string(at_key(at_pos(Ok(api_result.v), 0),
                                   "issuingCountry"))
         IN  IF s.thrown THEN Raised ELSE Returned(RetString(c_str(s.v)))
    ELSE Returned(RetString(<<>>))

\* the part of BarcodeImage after APICall
BarcodeImage_result(ok, result) ==
    IF ok = "true"
    THEN LET s == as_string(at_key(at_pos(parse(result), 0), "barcode"))
         IN  IF s.thrown THEN Raised ELSE Returned(RetString(c_str(s.v)))
    ELSE Returned(RetString(<<>>))

---------------------------------------------------------------------------
(* Inputs *)

\* "5099750442227"
Ean13 == <<53, 48, 57, 57, 55, 53, 48, 52, 52, 50, 50, 50, 55>>
\* "a b"
TwoWords == <<97, 32, 98>>
\* "k~1" and "t&k"
Tokens == {<<107, 126, 49>>, <<116, 38, 107>>}
\* what a caller passes as ean, isbn, name or prefix
StrArgs == {Ean13, TwoWords}
\* what a caller passes for a parameter it does not leave to its default
Given == [language |-> German, page |-> 2, category |-> 45,
          width |-> 200, height |-> 80]

Absent == [t |-> "absent"]

\* the JSON object of a product; a field given as Absent is left out
MkItem(ean, name, categoryId, categoryName, issuingCountry, g) ==
    JObj(SelectSeq(<<KV("ean", ean), KV("name", name),
                     KV("categoryId", categoryId),
                     KV("categoryName", categoryName),
                     KV("issuingCountry", issuingCountry),
                     KV("googleCategoryId", g)>>,
                   LAMBDA kv : kv.v.t # "absent"))

GoodEan == JStr(Ean13)
\* "X"
GoodName == JStr(<<88>>)
\* "1"
GoodCategoryId == JStr(<<49>>)
\* "Music"
GoodCategoryName == JStr(<<77, 117, 115, 105, 99>>)
\* "UK"
GoodCountry == JStr(<<85, 75>>)
\* "55"
GoodGoogle == JStr(<<53, 53>>)

\* a string field: as expected, empty, a number, left out
StrVariants(good) == {good, JStr(<<>>), JNum(7), Absent}

\* an integer field: "1", "-5", "abc", "", 45 (a number), left out,
\* "2147483648", "2147483647", " 12x"
IntVariants ==
    {GoodCategoryId, JStr(<<45, 53>>), JStr(<<97, 98, 99>>), JStr(<<>>),
     JNum(45), Absent,
     JStr(<<50, 49, 52, 55, 52, 56, 51, 54, 52, 56>>),
     JStr(<<50, 49, 52, 55, 52, 56, 51, 54, 52, 55>>),
     JStr(<<32, 49, 50, 120>>)}

\* googleCategoryId: left out, "55", "x", 55 (a number), "-3"
GoogleVariants ==
    {Absent, GoodGoogle, JStr(<<120>>), JNum(55), JStr(<<45, 51>>)}

\* product objects in which at most one required field is not as expected
ItemsWith(g) ==
    UNION {
      {MkItem(e, GoodName, GoodCategoryId, GoodCategoryName, GoodCountry, g) :
          e \in StrVariants(GoodEan)},
      {MkItem(GoodEan, n, GoodCategoryId, GoodCategoryName, GoodCountry, g) :
          n \in StrVariants(GoodName)},
      {MkItem(GoodEan, GoodName, c, GoodCategoryName, GoodCountry, g) :
          c \in IntVariants},
      {MkItem(GoodEan, GoodName, GoodCategoryId, cn, GoodCountry, g) :
          cn \in StrVariants(GoodCategoryName)},
      {MkItem(GoodEan, GoodName, GoodCategoryId, GoodCategoryName, ic, g) :
          ic \in StrVariants(GoodCountry)},
      {MkItem(JStr(<<>>), JStr(<<>>), JStr(<<45, 53>>), JStr(<<>>),
              JStr(<<>>), g)} }

Items == UNION {ItemsWith(g) : g \in GoogleVariants}

FullItem ==
    MkItem(GoodEan, GoodName, GoodCategoryId, GoodCategoryName, GoodCountry,
           GoodGoogle)
BasicItem ==
    MkItem(GoodEan, GoodName, GoodCategoryId, GoodCategoryName, GoodCountry,
           Absent)
NoNameItem ==
    MkItem(GoodEan, Absent, GoodCategoryId, GoodCategoryName, GoodCountry,
           Absent)
BadCategoryItem ==
    MkItem(GoodEan, GoodName, JStr(<<97, 98, 99>>), GoodCategoryName,
           GoodCountry, Absent)

\* JSON values that are not product objects
Scalars == {JNull, JNum(1), JStr(<<49>>), JArr(<<>>), JObj(<<>>)}

\* what a productlist array holds
ListItems == {FullItem, BasicItem, NoNameItem, BadCategoryItem, JNull}

RECURSIVE SeqsUpTo(_, _)
SeqsUpTo(S, n) ==
    IF n = 0 THEN {<<>>}
    ELSE LET shorter == SeqsUpTo(S, n - 1)
         IN  shorter \cup {Append(s, x) : s \in shorter, x \in S}

\* one-field objects of the checksum, country and image responses:
\* {"valid":"1"}, {"valid":"0"}, {"valid":1}, {"issuingCountry":"UK"},
\* {"barcode":"iVB"}, {"foo":1}
FieldObjects ==
    {JObj(<<KV("valid", JStr(<<49>>))>>), JObj(<<KV("valid", JStr(<<48>>))>>),
     JObj(<<KV("valid", JNum(1))>>),
     JObj(<<KV("issuingCountry", GoodCountry)>>),
     JObj(<<KV("barcode", JStr(<<105, 86, 66>>))>>),
     JObj(<<KV("foo", JNum(1))>>)}

\* the response bodies the transport delivers
Bodies ==
    {NotJSON}
    \cup Scalars
    \cup {FullItem, BasicItem}
    \cup FieldObjects
    \cup {JArr(<<x>>) : x \in Items \cup FieldObjects \cup Scalars}
    \cup {JArr(<<JObj(<<KV("valid", JStr(<<49>>))>>), JObj(<<>>)>>),
          JArr(<<FullItem, BasicItem>>)}
    \cup {JObj(<<KV("productlist", JArr(a))>>) : a \in SeqsUpTo(ListItems, MaxItems)}
    \cup {JObj(<<KV("productlist", JNum(1))>>),
          JObj(<<KV("productlist", JNull)>>),
          JObj(<<KV("foo", JNum(1)), KV("productlist", JArr(<<BasicItem>>))>>)}

---------------------------------------------------------------------------
(* The params string each facade operation composes *)

BarcodeLookup_params(ean, language) ==
    S_barcode_lookup_ean \o ean \o S_language \o to_string(language)

IsbnLookup_params(isbn) == S_barcode_lookup_isbn \o isbn

VerifyChecksum_params(ean) == S_verify_checksum_ean \o ean

ProductSearch_params(name, only_language, page) ==
    S_product_search_name \o urlencode(name) \o S_language
        \o to_string(only_language) \o S_page \o to_string(page)

SimilarProductSearch_params(name, only_language, page) ==
    S_similar_product_search_name \o urlencode(name) \o S_language
        \o to_string(only_language) \o S_page \o to_string(page)

CategorySearch_params(category, name, only_language, page) ==
    S_category_search_category \o to_string(category) \o S_name
        \o urlencode(name) \o S_language \o to_string(only_language)
        \o S_page \o to_string(page)

BarcodePrefixSearch_params(prefix, language, page) ==
    S_barcode_prefix_search_prefix \o prefix \o S_language
        \o to_string(language) \o S_page \o to_string(page)

IssuingCountryLookup_params(ean) == S_issuing_country_ean \o ean

BarcodeImage_params(ean, width, height) ==
    S_barcode_image_ean \o ean \o S_width \o to_string(width) \o S_height
        \o to_string(height)

\* the target with the format flag put before the token
APICall_target_swapped(p, tok) == S_api \o p \o S_format \o S_token \o tok

\* string target = "/api?" + params + "&token=" + this->token + "&format=json"
APICall_target(p, tok) == S_api \o p \o S_token \o tok \o S_format

\* the test of ec without the clearing of eof
shutdown_throws_noclear(e) == e # "ok"

\* whether APICall throws after stream.shutdown(ec): eof is cleared first
shutdown_throws(e) ==
    LET cleared == IF e = "eof" THEN "ok" ELSE e
    IN  cleared # "ok"

---------------------------------------------------------------------------
(* Initial state: an EANSearch object constructed with a token, no call
   made yet *)

InitFacade ==
    /\ token \in Tokens
    /\ pc = "idle"
    /\ op = "none"
    /\ nargs = 0
    /\ sarg = <<>>
    /\ params = <<>>
    /\ target = <<>>
    /\ conn = "none"
    /\ nreq = 0
    /\ output = NotJSON
    /\ failedAt = "none"
    /\ ec = "none"
    /\ apiret = "none"
    /\ outcome = "none"
    /\ ret = NoRet

\* no direct call of urlencode in progress
EncIdle ==
    /\ encIn = <<>>
    /\ encOut = <<>>
    /\ encDone = FALSE

\* no direct call of ProductFromJSON in progress
DecIdle ==
    /\ decIn = JNull
    /\ decOut = Thrown
    /\ decDone = FALSE

Init == InitFacade /\ EncIdle /\ DecIdle

---------------------------------------------------------------------------
(* A facade call up to its call of APICall: the method composes params and
   APICall builds the target.  The locals of the call start fresh. *)

Begin(o, n, s, p) ==
    /\ pc \in {"idle", "done"}
    /\ op' = o
    /\ nargs' = n
    /\ sarg' = s
    /\ params' = p
    /\ target' = APICall_target(p, token)
    /\ pc' = "stream"
    /\ conn' = "none"
    /\ nreq' = 0
    /\ output' = NotJSON
    /\ failedAt' = "none"
    /\ ec' = "none"
    /\ apiret' = "none"
    /\ outcome' = "none"
    /\ ret' = NoRet
    /\ UNCHANGED <<token, encVars, decVars>>

BarcodeLookup_call ==
    \E ean \in StrArgs, n \in 1..2 :
        Begin("BarcodeLookup", n, ean,
              BarcodeLookup_params(ean,
                  Arg(n, 2, Given.language, BarcodeLookup_language)))

IsbnLookup_call ==
    \E isbn \in StrArgs :
        Begin("IsbnLookup", 1, isbn, IsbnLookup_params(isbn))

VerifyChecksum_call ==
    \E ean \in StrArgs :
        Begin("VerifyChecksum", 1, ean, VerifyChecksum_params(ean))

ProductSearch_call ==
    \E name \in StrArgs, n \in 1..3 :
        Begin("ProductSearch", n, name,
              ProductSearch_params(name,
                  Arg(n, 2, Given.language, ProductSearch_only_language),
                  Arg(n, 3, Given.page, ProductSearch_page)))

SimilarProductSearch_call ==
    \E name \in StrArgs, n \in 1..3 :
        Begin("SimilarProductSearch", n, name,
              SimilarProductSearch_params(name,
                  Arg(n, 2, Given.language, SimilarProductSearch_only_language),
                  Arg(n, 3, Given.page, SimilarProductSearch_page)))

CategorySearch_call ==
    \E name \in StrArgs, n \in 2..4 :
        Begin("CategorySearch", n, name,
              CategorySearch_params(Given.category, name,
                  Arg(n, 3, Given.language, CategorySearch_only_language),
                  Arg(n, 4, Given.page, CategorySearch_page)))

BarcodePrefixSearch_call ==
    \E prefix \in StrArgs, n \in 1..3 :
        Begin("BarcodePrefixSearch", n, prefix,
              BarcodePrefixSearch_params(prefix,
                  Arg(n, 2, Given.language, BarcodePrefixSearch_language),
                  Arg(n, 3, Given.page, BarcodePrefixSearch_page)))

IssuingCountryLookup_call ==
    \E ean \in StrArgs :
        Begin("IssuingCountryLookup", 1, ean, IssuingCountryLookup_params(ean))

BarcodeImage_call ==
    \E ean \in StrArgs, n \in 1..3 :
        Begin("BarcodeImage", n, ean,
              BarcodeImage_params(ean,
                  Arg(n, 2, Given.width, BarcodeImage_width),
                  Arg(n, 3, Given.height, BarcodeImage_height)))

---------------------------------------------------------------------------
(* APICall: the statements of the try block, each of which may throw; the
   catch block returns false, and leaving the block destroys the stream *)

callVars == <<token, op, nargs, sarg, params, target, encVars, decVars>>

\* the catch block reached with the stream still alive
Catch_leak(stage) ==
    /\ failedAt' = stage
    /\ apiret' = "false"
    /\ UNCHANGED conn
    /\ pc' = "returning"

Catch(stage) ==
    /\ failedAt' = stage
    /\ apiret' = "false"
    /\ conn' = "closed"
    /\ pc' = "returning"

\* ioc, ctx, resolver and stream are constructed and the SNI name is set
APICall_stream ==
    /\ pc = "stream"
    /\ \/ /\ conn' = "created"
          /\ pc' = "resolve"
          /\ UNCHANGED <<failedAt, apiret>>
       \/ Catch("sni")
    /\ UNCHANGED <<callVars, nreq, output, ec, outcome, ret>>

APICall_resolve ==
    /\ pc = "resolve"
    /\ \/ /\ pc' = "connect"
          /\ UNCHANGED <<conn, failedAt, apiret>>
       \/ Catch("resolve")
    /\ UNCHANGED <<callVars, nreq, output, ec, outcome, ret>>

APICall_connect ==
    /\ pc = "connect"
    /\ \/ /\ conn' = "connected"
          /\ pc' = "handshake"
          /\ UNCHANGED <<failedAt, apiret>>
       \/ Catch("connect")
    /\ UNCHANGED <<callVars, nreq, output, ec, outcome, ret>>

APICall_handshake ==
    /\ pc = "handshake"
    /\ \/ /\ conn' = "tls"
          /\ pc' = "write"
          /\ UNCHANGED <<failedAt, apiret>>
       \/ Catch("handshake")
    /\ UNCHANGED <<callVars, nreq, output, ec, outcome, ret>>

APICall_write ==
    /\ pc = "write"
    /\ \/ /\ nreq' = nreq + 1
          /\ pc' = "read"
          /\ UNCHANGED <<conn, failedAt, apiret>>
       \/ /\ Catch("write")
          /\ UNCHANGED nreq
    /\ UNCHANGED <<callVars, output, ec, outcome, ret>>

\* http::read and output = res.body()
APICall_read ==
    /\ pc = "read"
    /\ \/ /\ \E body \in Bodies : output' = body
          /\ pc' = "shutdown"
          /\ UNCHANGED <<conn, failedAt, apiret>>
       \/ /\ Catch("read")
          /\ UNCHANGED output
    /\ UNCHANGED <<callVars, nreq, ec, outcome, ret>>

\* stream.shutdown(ec) and the test of ec; return true after the block
APICall_shutdown ==
    /\ pc = "shutdown"
    /\ \E e \in {"ok", "eof", "other"} :
          /\ ec' = e
          /\ IF shutdown_throws(e)
             THEN Catch("shutdown")
             ELSE /\ apiret' = "true"
                  /\ conn' = "closed"
                  /\ pc' = "returning"
                  /\ UNCHANGED failedAt
    /\ UNCHANGED <<callVars, nreq, output, outcome, ret>>

---------------------------------------------------------------------------
(* The rest of each facade method, after APICall has returned *)

Finish(o, r) ==
    /\ pc = "returning"
    /\ op = o
    /\ outcome' = r.outcome
    /\ ret' = r.ret
    /\ pc' = "done"
    /\ UNCHANGED <<callVars, conn, nreq, output, failedAt, ec, apiret>>

BarcodeLookup_return ==
    Finish("BarcodeLookup", BarcodeLookup_result(apiret, output))

IsbnLookup_return ==
    Finish("IsbnLookup", IsbnLookup_result(apiret, output))

VerifyChecksum_return ==
    Finish("VerifyChecksum", VerifyChecksum_result(apiret, output))

ProductSearch_return ==
    Finish("ProductSearch", Search_result(apiret, output))

SimilarProductSearch_return ==
    Finish("SimilarProductSearch", Search_result(apiret, output))

CategorySearch_return ==
    Finish("CategorySearch", Search_result(apiret, output))

BarcodePrefixSearch_return ==
    Finish("BarcodePrefixSearch", Search_result(apiret, output))

IssuingCountryLookup_return ==
    Finish("IssuingCountryLookup", IssuingCountryLookup_result(apiret, output))

BarcodeImage_return ==
    Finish("BarcodeImage", BarcodeImage_result(apiret, output))

Next ==
    \/ BarcodeLookup_call
    \/ IsbnLookup_call
    \/ VerifyChecksum_call
    \/ ProductSearch_call
    \/ SimilarProductSearch_call
    \/ CategorySearch_call
    \/ BarcodePrefixSearch_call
    \/ IssuingCountryLookup_call
    \/ BarcodeImage_call
    \/ APICall_stream
    \/ APICall_resolve
    \/ APICall_connect
    \/ APICall_handshake
    \/ APICall_write
    \/ APICall_read
    \/ APICall_shutdown
    \/ BarcodeLookup_return
    \/ IsbnLookup_return
    \/ VerifyChecksum_return
    \/ ProductSearch_return
    \/ SimilarProductSearch_return
    \/ CategorySearch_return
    \/ BarcodePrefixSearch_return
    \/ IssuingCountryLookup_return
    \/ BarcodeImage_return

Spec == Init /\ [][Next]_vars

---------------------------------------------------------------------------
(* urlencode called directly on bounded byte strings *)

\* bytes around the borders of the unreserved ranges: NUL, space, % + - .
\* / 0 9 : @ A Z [ _ ` a z { ~ DEL, 0x80, 0xFF
EncBytes ==
    {0, 32, 37, 43, 45, 46, 47, 48, 57, 58, 64, 65, 90, 91, 95, 96, 97, 122,
     123, 126, 127, 128, 255}

InitEncode ==
    /\ InitFacade
    /\ DecIdle
    /\ encIn \in SeqsUpTo(EncBytes, MaxLen) \cup {<<b>> : b \in 0..255}
    /\ encOut = <<>>
    /\ encDone = FALSE

urlencode_call ==
    /\ ~encDone
    /\ encOut' = urlencode(encIn)
    /\ encDone' = TRUE
    /\ UNCHANGED <<facadeVars, decVars, encIn>>

NextEncode == urlencode_call

SpecEncode == InitEncode /\ [][NextEncode]_vars

---------------------------------------------------------------------------
(* ProductFromJSON called directly on one JSON value *)

InitDecode ==
    /\ InitFacade
    /\ EncIdle
    /\ decIn \in Items \cup Scalars
    /\ decOut = Thrown
    /\ decDone = FALSE

ProductFromJSON_call ==
    /\ ~decDone
    /\ decOut' = ProductFromJSON(decIn)
    /\ decDone' = TRUE
    /\ UNCHANGED <<facadeVars, encVars, decIn>>

NextDecode == ProductFromJSON_call

SpecDecode == InitDecode /\ [][NextDecode]_vars

---------------------------------------------------------------------------
(* Properties *)

Searches ==
    {"ProductSearch", "SimilarProductSearch", "CategorySearch",
     "BarcodePrefixSearch"}

\* the failure value of each operation
Sentinel(o) ==
    IF o \in {"BarcodeLookup", "IsbnLookup"} THEN RetProduct(nullptr)
    ELSE IF o \in Searches THEN RetList(NoList)
    ELSE IF o = "VerifyChecksum" THEN RetBool(FALSE)
    ELSE RetString(<<>>)

\* A-Z a-z 0-9 - _ . ~
UnreservedBytes ==
    (65..90) \cup (97..122) \cup (48..57) \cup {45, 95, 46, 126}

UpperHexDigit(n) == IF n < 10 THEN 48 + n ELSE 55 + n

\* the escape RFC 3986 asks for
Escape(b) ==
    IF b \in UnreservedBytes THEN <<b>>
    ELSE <<37, UpperHexDigit(b \div 16), UpperHexDigit(b % 16)>>

Escaped(s) == Flatten([i \in 1..Len(s) |-> Escape(s[i])])

HexValue(c) ==
    IF c >= 48 /\ c <= 57 THEN c - 48
    ELSE IF c >= 65 /\ c <= 70 THEN c - 55
    ELSE IF c >= 97 /\ c <= 102 THEN c - 87
    ELSE -1

\* standard percent-decoding: %XY with two hex digits is one byte, any
\* other byte stands for itself
RECURSIVE PercentDecode(_)
PercentDecode(s) ==
    IF s = <<>> THEN <<>>
    ELSE IF Head(s) = 37 /\ Len(s) >= 3 /\ HexValue(s[2]) >= 0
            /\ HexValue(s[3]) >= 0
    THEN <<HexValue(s[2]) * 16 + HexValue(s[3])>>
             \o PercentDecode(SubSeq(s, 4, Len(s)))
    ELSE <<Head(s)>> \o PercentDecode(Tail(s))

\* C8: urlencode copies the unreserved bytes (letters, digits, - _ . ~) and
\* writes every other byte as % and its two uppercase hex digits, so its
\* output holds only characters of [A-Za-z0-9-_.~%] and percent-decodes back
\* to the input.
C8_UrlencodeRoundTrip ==
    encDone =>
        /\ encOut = Escaped(encIn)
        /\ \A i \in 1..Len(encOut) : encOut[i] \in UnreservedBytes \cup {37}
        /\ PercentDecode(encOut) = encIn

\* "a " is encoded as "a%20"
C8_Witness ==
    /\ encDone
    /\ encIn = <<97, 32>>
    /\ encOut = <<97, 37, 50, 48>>

\* the string value of a field of an object, or nothing
FieldIsString(o, key) == if_contains(o, key) /\ find(o, key).t = "string"

FieldIsInt(o, key) ==
    FieldIsString(o, key) /\ ~stoi(find(o, key).s).thrown

\* an object with the five required fields present and well-typed
RequiredWellTyped(v) ==
    /\ v.t = "object"
    /\ FieldIsString(v.o, "ean")
    /\ FieldIsString(v.o, "name")
    /\ FieldIsInt(v.o, "categoryId")
    /\ FieldIsString(v.o, "categoryName")
    /\ FieldIsString(v.o, "issuingCountry")

\* C4: an object whose five required fields are present and well-typed
\* always decodes, to a ProductFull exactly when it has a googleCategoryId
\* that parses as an integer and to a plain Product otherwise.
C4_VariantByGoogleCategoryId ==
    (decDone /\ RequiredWellTyped(decIn)) =>
        /\ ~decOut.thrown
        /\ decOut.v # nullptr
        /\ (decOut.v.cls = "ProductFull"
              <=> FieldIsInt(decIn.o, "googleCategoryId"))

\* C1: whatever body the transport delivers, a facade call ends by
\* returning a value; a malformed response never leaves the method as a
\* raised fault.
C1_NoFaultEscapes ==
    (pc = "done" /\ apiret = "true") => outcome = "returned"

\* C2: when the transport fails at any stage APICall returns false and the
\* operation returns its sentinel, whatever body was read, without raising;
\* an end-of-stream reported by shutdown after a successful read is not a
\* failure and APICall returns true.
C2_TransportFailureGivesSentinel ==
    /\ (failedAt # "none" => apiret = "false")
    /\ (apiret = "false" => failedAt # "none")
    /\ (pc = "done" /\ failedAt # "none") =>
           (outcome = "returned" /\ ret = Sentinel(op))
    /\ (ec = "eof" => (apiret = "true" /\ failedAt = "none"))

\* shutdown failed after a body that would decode had been read
C2_Witness ==
    /\ pc = "done"
    /\ op = "BarcodeLookup"
    /\ failedAt = "shutdown"
    /\ ec = "other"
    /\ output = JArr(<<FullItem>>)
    /\ apiret = "false"
    /\ ret = RetProduct(nullptr)

\* an object with the five required fields and googleCategoryId, all
\* well-typed
IsFullProductObject(v) ==
    RequiredWellTyped(v) /\ FieldIsInt(v.o, "googleCategoryId")

\* the record p holds the five required fields of the object o
Populated(p, o) ==
    /\ FieldIsString(o, "ean") /\ p.ean = find(o, "ean").s
    /\ FieldIsString(o, "name") /\ p.name = find(o, "name").s
    /\ FieldIsInt(o, "categoryId")
    /\ p.categoryId = stoi(find(o, "categoryId").s).v
    /\ FieldIsString(o, "categoryName")
    /\ p.categoryName = find(o, "categoryName").s
    /\ FieldIsString(o, "issuingCountry")
    /\ p.issuingCountry = find(o, "issuingCountry").s

\* the ProductFull p holds every field of the object o
IsFullProductOf(p, o) ==
    /\ p.cls = "ProductFull"
    /\ Populated(p, o)
    /\ FieldIsInt(o, "googleCategoryId")
    /\ p.googleCategoryId = stoi(find(o, "googleCategoryId").s).v

\* C3 as stated: BarcodeLookup on a body that is a single FullProduct
\* object returns that FullProduct.
C3_BareObjectBody ==
    (pc = "done" /\ op = "BarcodeLookup" /\ apiret = "true"
        /\ IsFullProductObject(output)) =>
        /\ outcome = "returned"
        /\ ret.p # nullptr
        /\ IsFullProductOf(ret.p, output.o)

\* C3 amended: BarcodeLookup on a body that is a one-element array wrapping
\* a FullProduct object returns a ProductFull whose fields are those of the
\* object, the two integer fields being the values stoi reads.
C3_ArrayWrappedBody ==
    (pc = "done" /\ op = "BarcodeLookup" /\ apiret = "true"
        /\ output.t = "array" /\ Len(output.a) = 1
        /\ IsFullProductObject(output.a[1])) =>
        /\ outcome = "returned"
        /\ ret.p # nullptr
        /\ IsFullProductOf(ret.p, output.a[1].o)

C3_Witness ==
    /\ pc = "done"
    /\ op = "BarcodeLookup"
    /\ output = JArr(<<FullItem>>)
    /\ outcome = "returned"
    /\ ret = RetProduct(NewProductFull(Ean13, <<88>>, 1,
                                       <<77, 117, 115, 105, 99>>, <<85, 75>>,
                                       55))

\* a body whose top level is an object with a productlist array
IsProductListBody(v) ==
    /\ v.t = "object"
    /\ if_contains(v.o, "productlist")
    /\ find(v.o, "productlist").t = "array"

\* the records of the elements of arr that the per-item decode accepts
RECURSIVE DecodableOf(_)
DecodableOf(arr) ==
    IF arr = <<>> THEN <<>>
    ELSE LET p == ProductFromJSON(Head(arr))
         IN  IF ~p.thrown /\ p.v # nullptr
             THEN <<p.v>> \o DecodableOf(Tail(arr))
             ELSE DecodableOf(Tail(arr))

\* C5: a productlist element that fails required-field decoding is skipped
\* and the search returns the list of the elements that decode.
C5_BadElementSkipped ==
    (pc = "done" /\ op \in Searches /\ apiret = "true"
        /\ IsProductListBody(output)) =>
        /\ outcome = "returned"
        /\ ret = RetList(List(DecodableOf(find(output.o, "productlist").a)))

\* a body that does not parse, or is an object without a productlist
\* field, or with a productlist that is not an array
IsMalformedListBody(v) ==
    \/ v.t = "invalid"
    \/ v.t = "object" /\ ~if_contains(v.o, "productlist")
    \/ v.t = "object" /\ if_contains(v.o, "productlist")
          /\ find(v.o, "productlist").t # "array"

\* C6: list decode returns an empty list for an empty productlist array and
\* returns no list for a body that is malformed.
C6_EmptyVersusMalformed ==
    (pc = "done" /\ op \in Searches /\ apiret = "true") =>
        /\ (IsProductListBody(output)
              /\ find(output.o, "productlist").a = <<>>) =>
                 (outcome = "returned" /\ ret = RetList(List(<<>>)))
        /\ IsMalformedListBody(output) =>
                 (outcome = "returned" /\ ret = RetList(NoList))

\* a one-element array wrapping an object whose valid field is "1"
IsValidOne(v) ==
    /\ v.t = "array"
    /\ Len(v.a) = 1
    /\ v.a[1].t = "object"
    /\ if_contains(v.a[1].o, "valid")
    /\ find(v.a[1].o, "valid") = JStr(<<49>>)

\* C7: after a successful transport call VerifyChecksum returns true
\* exactly for a one-element array wrapping an object whose valid field is
\* "1", and returns false for every other body.
C7_TrueOnlyForValidOne ==
    (pc = "done" /\ op = "VerifyChecksum" /\ apiret = "true") =>
        /\ outcome = "returned"
        /\ ret = RetBool(IsValidOne(output))

\* "/api?op=barcode-lookup&ean="
T_BarcodeLookup ==
    <<47, 97, 112, 105, 63, 111, 112, 61, 98, 97, 114, 99, 111, 100, 101,
      45, 108, 111, 111, 107, 117, 112, 38, 101, 97, 110, 61>>
\* "/api?op=barcode-lookup&isbn="
T_IsbnLookup ==
    <<47, 97, 112, 105, 63, 111, 112, 61, 98, 97, 114, 99, 111, 100, 101,
      45, 108, 111, 111, 107, 117, 112, 38, 105, 115, 98, 110, 61>>
\* "/api?op=verify-checksum&ean="
T_VerifyChecksum ==
    <<47, 97, 112, 105, 63, 111, 112, 61, 118, 101, 114, 105, 102, 121,
      45, 99, 104, 101, 99, 107, 115, 117, 109, 38, 101, 97, 110, 61>>
\* "/api?op=product-search&name="
T_ProductSearch ==
    <<47, 97, 112, 105, 63, 111, 112, 61, 112, 114, 111, 100, 117, 99,
      116, 45, 115, 101, 97, 114, 99, 104, 38, 110, 97, 109, 101, 61>>
\* "/api?op=similar-product-search&name="
T_SimilarProductSearch ==
    <<47, 97, 112, 105, 63, 111, 112, 61, 115, 105, 109, 105, 108, 97,
      114, 45, 112, 114, 111, 100, 117, 99, 116, 45, 115, 101, 97, 114,
      99, 104, 38, 110, 97, 109, 101, 61>>
\* "/api?op=category-search&category=45&name="
T_CategorySearch ==
    <<47, 97, 112, 105, 63, 111, 112, 61, 99, 97, 116, 101, 103, 111, 114,
      121, 45, 115, 101, 97, 114, 99, 104, 38, 99, 97, 116, 101, 103, 111,
      114, 121, 61, 52, 53, 38, 110, 97, 109, 101, 61>>
\* "/api?op=barcode-prefix-search&prefix="
T_BarcodePrefixSearch ==
    <<47, 97, 112, 105, 63, 111, 112, 61, 98, 97, 114, 99, 111, 100, 101,
      45, 112, 114, 101, 102, 105, 120, 45, 115, 101, 97, 114, 99, 104,
      38, 112, 114, 101, 102, 105, 120, 61>>
\* "/api?op=issuing-country&ean="
T_IssuingCountryLookup ==
    <<47, 97, 112, 105, 63, 111, 112, 61, 105, 115, 115, 117, 105, 110,
      103, 45, 99, 111, 117, 110, 116, 114, 121, 38, 101, 97, 110, 61>>
\* "/api?op=barcode-image&ean="
T_BarcodeImage ==
    <<47, 97, 112, 105, 63, 111, 112, 61, 98, 97, 114, 99, 111, 100, 101,
      45, 105, 109, 97, 103, 101, 38, 101, 97, 110, 61>>
\* "&language=1"
T_language_1 ==
    <<38, 108, 97, 110, 103, 117, 97, 103, 101, 61, 49>>
\* "&language=3"
T_language_3 ==
    <<38, 108, 97, 110, 103, 117, 97, 103, 101, 61, 51>>
\* "&language=99"
T_language_99 ==
    <<38, 108, 97, 110, 103, 117, 97, 103, 101, 61, 57, 57>>
\* "&page=0"
T_page_0 ==
    <<38, 112, 97, 103, 101, 61, 48>>
\* "&page=1"
T_page_1 ==
    <<38, 112, 97, 103, 101, 61, 49>>
\* "&page=2"
T_page_2 ==
    <<38, 112, 97, 103, 101, 61, 50>>
\* "&width=102"
T_width_102 ==
    <<38, 119, 105, 100, 116, 104, 61, 49, 48, 50>>
\* "&width=200"
T_width_200 ==
    <<38, 119, 105, 100, 116, 104, 61, 50, 48, 48>>
\* "&height=50"
T_height_50 ==
    <<38, 104, 101, 105, 103, 104, 116, 61, 53, 48>>
\* "&height=80"
T_height_80 ==
    <<38, 104, 101, 105, 103, 104, 116, 61, 56, 48>>
\* "&token="
T_token ==
    <<38, 116, 111, 107, 101, 110, 61>>
\* "&format=json"
T_format ==
    <<38, 102, 111, 114, 109, 97, 116, 61, 106, 115, 111, 110>>
\* "/api?op=similar-product-search&name=a%20b&language=99&page=1&token=k~1
\* &format=json"
T_SimilarDefault ==
    <<47, 97, 112, 105, 63, 111, 112, 61, 115, 105, 109, 105, 108, 97,
      114, 45, 112, 114, 111, 100, 117, 99, 116, 45, 115, 101, 97, 114,
      99, 104, 38, 110, 97, 109, 101, 61, 97, 37, 50, 48, 98, 38, 108, 97,
      110, 103, 117, 97, 103, 101, 61, 57, 57, 38, 112, 97, 103, 101, 61,
      49, 38, 116, 111, 107, 101, 110, 61, 107, 126, 49, 38, 102, 111,
      114, 109, 97, 116, 61, 106, 115, 111, 110>>

\* the text of the i-th parameter: the value the caller gave when the call
\* passes at least i arguments, the documented default otherwise
Shown(n, i, given, default) == IF n >= i THEN given ELSE default

\* the request target up to the token, for a call of o with n arguments
\* and the string argument s
ExpectedFields(o, n, s) ==
    CASE o = "BarcodeLookup" ->
           T_BarcodeLookup \o s \o Shown(n, 2, T_language_3, T_language_1)
      [] o = "IsbnLookup" -> T_IsbnLookup \o s
      [] o = "VerifyChecksum" -> T_VerifyChecksum \o s
      [] o = "ProductSearch" ->
           T_ProductSearch \o Escaped(s)
               \o Shown(n, 2, T_language_3, T_language_99)
               \o Shown(n, 3, T_page_2, T_page_0)
      [] o = "SimilarProductSearch" ->
           T_SimilarProductSearch \o Escaped(s)
               \o Shown(n, 2, T_language_3, T_language_99)
               \o Shown(n, 3, T_page_2, T_page_1)
      [] o = "CategorySearch" ->
           T_CategorySearch \o Escaped(s)
               \o Shown(n, 3, T_language_3, T_language_99)
               \o Shown(n, 4, T_page_2, T_page_0)
      [] o = "BarcodePrefixSearch" ->
           T_BarcodePrefixSearch \o s
               \o Shown(n, 2, T_language_3, T_language_1)
               \o Shown(n, 3, T_page_2, T_page_0)
      [] o = "IssuingCountryLookup" -> T_IssuingCountryLookup \o s
      [] o = "BarcodeImage" ->
           T_BarcodeImage \o s
               \o Shown(n, 2, T_width_200, T_width_102)
               \o Shown(n, 3, T_height_80, T_height_50)

\* C9: the request target is "/api?op=<id>" with the operation's fields in
\* the order the method composes them, then "&token=" and the credential
\* unmodified, then "&format=json"; a parameter the caller leaves out shows
\* its documented default.
C9_RequestTarget ==
    pc # "idle" =>
        target = ExpectedFields(op, nargs, sarg) \o T_token \o token
                     \o T_format

\* SimilarProductSearch("a b") with language and page left out
C9_Witness ==
    /\ pc = "done"
    /\ op = "SimilarProductSearch"
    /\ nargs = 1
    /\ sarg = TwoWords
    /\ target = T_SimilarDefault

\* the product records a returned value holds
ReturnedProducts ==
    IF ret.kind = "ProductFull*"
    THEN IF ret.p = nullptr THEN <<>> ELSE <<ret.p>>
    ELSE IF ret.kind = "ProductList*"
    THEN IF ret.l.isnull THEN <<>> ELSE ret.l.pl
    ELSE <<>>

\* the JSON values the returned records were decoded from
ReturnedSources ==
    IF ret.kind = "ProductFull*"
    THEN IF ret.p = nullptr THEN <<>> ELSE <<output.a[1]>>
    ELSE IF ret.kind = "ProductList*"
    THEN IF ret.l.isnull THEN <<>>
         ELSE SelectSeq(find(output.o, "productlist").a,
                        LAMBDA x : x.t = "object")
    ELSE <<>>

\* C10 as stated: every returned product record has a non-empty ean, name,
\* categoryName and issuingCountry and a categoryId of at least 0.
C10_NonEmptyFields ==
    (pc = "done" /\ outcome = "returned") =>
        \A i \in 1..Len(ReturnedProducts) :
            LET p == ReturnedProducts[i]
            IN  /\ p.ean # <<>>
                /\ p.name # <<>>
                /\ p.categoryName # <<>>
                /\ p.issuingCountry # <<>>
                /\ p.categoryId >= 0

\* C10 amended: every returned product record holds the string values of
\* the ean, name, categoryName and issuingCountry fields of the object it
\* was decoded from and the integer stoi reads from its categoryId string;
\* no record is returned for an object that lacks one of them.
C10_FieldsPopulated ==
    (pc = "done" /\ outcome = "returned") =>
        /\ Len(ReturnedProducts) = Len(ReturnedSources)
        /\ \A i \in 1..Len(ReturnedProducts) :
              /\ ReturnedSources[i].t = "object"
              /\ Populated(ReturnedProducts[i], ReturnedSources[i].o)

\* a search returned two records, one of each class
C10_Witness ==
    /\ pc = "done"
    /\ op = "ProductSearch"
    /\ outcome = "returned"
    /\ output = JObj(<<KV("productlist", JArr(<<FullItem, BasicItem>>))>>)
    /\ Len(ReturnedProducts) = 2
    /\ ReturnedProducts[1].cls = "ProductFull"
    /\ ReturnedProducts[2].cls = "Product"

\* a body whose productlist is an empty array: a search with no matches
IsZeroMatchBody(v) ==
    IsProductListBody(v) /\ find(v.o, "productlist").a = <<>>

\* C11: the value a search returns for a response with zero matches (an
\* empty productlist array) and the value it returns for a malformed
\* response (corrupt JSON, productlist missing or not an array) are the
\* same, the null sentinel.
C11_ZeroMatchesSameAsMalformed ==
    (pc = "done" /\ op \in Searches /\ apiret = "true"
        /\ outcome = "returned"
        /\ (IsZeroMatchBody(output) \/ IsMalformedListBody(output))) =>
        ret = Sentinel(op)

\* C12: a facade call starts without a connection, writes at most one
\* request on the connection it opens, and has released that connection
\* whenever APICall has returned, on the success path and on the failure
\* path of every stage.
C12_ConnectionReleased ==
    /\ nreq <= 1
    /\ pc \in {"idle", "stream"} => (conn = "none" /\ nreq = 0)
    /\ pc \in {"returning", "done"} => conn = "closed"
    /\ (pc \in {"returning", "done"} /\ apiret = "true") => nreq = 1
    /\ conn \in {"created", "connected", "tls"} =>
           pc \in {"resolve", "connect", "handshake", "write", "read",
                   "shutdown"}

\* the read failed after the one request had been written
C12_Witness ==
    /\ pc = "done"
    /\ failedAt = "read"
    /\ apiret = "false"
    /\ nreq = 1
    /\ conn = "closed"

Lookups == {"BarcodeLookup", "IsbnLookup"}

\* C13: BarcodeLookup and IsbnLookup return a non-null product only of
\* class ProductFull; when the first element of the response array is an
\* object with the five required fields valid and no googleCategoryId, the
\* lookup returns null, the value it returns for a transport failure.
C13_BasicProductGivesNull ==
    (pc = "done" /\ op \in Lookups) =>
        /\ (outcome = "returned" /\ ret.p # nullptr) =>
               ret.p.cls = "ProductFull"
        /\ (apiret = "true" /\ output.t = "array" /\ Len(output.a) >= 1
               /\ RequiredWellTyped(output.a[1])
               /\ ~if_contains(output.a[1].o, "googleCategoryId")) =>
               (outcome = "returned" /\ ret = RetProduct(nullptr))
        /\ apiret = "false" =>
               (outcome = "returned" /\ ret = RetProduct(nullptr))

\* IsbnLookup got a plain product and returned null
C13_Witness ==
    /\ pc = "done"
    /\ op = "IsbnLookup"
    /\ apiret = "true"
    /\ output = JArr(<<BasicItem>>)
    /\ outcome = "returned"
    /\ ret = RetProduct(nullptr)

====
